---- MODULE Spec2Model ----
(***************************************************************************)
(* Model of the `ao` command line orchestrator (crate ao-cli): the upward  *)
(* project-root search, the configuration loader, the command executor,    *)
(* and the init / run / check / build flows, over an explicit filesystem.  *)
(*                                                                         *)
(* A path is a sequence of component names, <<>> being the filesystem      *)
(* root.  A command string is a sequence of chunks: a chunk is a blank, a  *)
(* quote character, or a run of ordinary characters.                       *)
(***************************************************************************)
EXTENDS Integers, Sequences, FiniteSets, TLC

VARIABLES
    fs,            \* the filesystem: existing path |-> "dir" or "file"
    cfg,           \* text of every existing ao.toml file: path |-> text
    edits,         \* number of manual edits made to the tree so far
    op,            \* the operation being executed ("none" when idle)
    pc,            \* position of the operation
    start_path,    \* the path argument of the operation
    cwd,           \* the current directory the tool was started in
    task_name,     \* the task argument of `run`
    project_path,  \* root found by find_project_root
    config,        \* configuration returned by load_config
    idx,           \* index of the command the current loop is at
    outer,         \* build: the root and project name build itself resolved
    attempt,       \* number of processes run_tool has already waited for
    log,           \* processes spawned by the operation, in spawn order
    started,       \* the filesystem as the operation found it when it started
    started_cfg,   \* the ao.toml texts as the operation found them
    calls,         \* calls of find_project_root and load_config so far
    walk_path,     \* the directory the loop of find_project_root is at
    running,       \* the child processes spawned and not yet exited
    result         \* what the operation returned

vars == <<fs, cfg, edits, op, pc, start_path, cwd, task_name, project_path,
          config, idx, outer, attempt, log, started, started_cfg, calls,
          walk_path, running, result>>

(***************************************************************************)
(* Bounds of the model.                                                    *)
(***************************************************************************)
MaxEdits == 2

(***************************************************************************)
(* Paths.                                                                  *)
(***************************************************************************)
FsRoot == <<>>
Work == <<"w">>
Outside == <<"w", "o">>
Proj == <<"w", "p">>
Nested == <<"w", "p", "models">>

Join(p, name) == Append(p, name)

Parent(p) == SubSeq(p, 1, Len(p) - 1)

HasParent(p) == Len(p) > 0

IsPrefix(p, q) == Len(p) <= Len(q) /\ SubSeq(q, 1, Len(p)) = p

Exists(f, p) == p \in DOMAIN f

IsDir(f, p) == p \in DOMAIN f /\ f[p] = "dir"

IsFile(f, p) == p \in DOMAIN f /\ f[p] = "file"

FileName(p) == p[Len(p)]

(***************************************************************************)
(* Results.  An error is a chain of layers, outermost context first.       *)
(***************************************************************************)
NoPath == <<"?">>

Layer(kind, arg, arg2) == [kind |-> kind, arg |-> arg, arg2 |-> arg2]

Ok(p) == [ok |-> TRUE, path |-> p, err |-> <<>>]

Err(kind, arg, arg2) == [ok |-> FALSE, path |-> NoPath, err |-> <<Layer(kind, arg, arg2)>>]

WithContext(r, kind, arg, arg2) ==
    IF r.ok THEN r
    ELSE [ok |-> FALSE, path |-> NoPath, err |-> <<Layer(kind, arg, arg2)>> \o r.err]

Pending == [ok |-> FALSE, path |-> NoPath, err |-> <<>>]

\* anyhow: to_string() of an error is its outermost context alone
Message(r) == Head(r.err)

(***************************************************************************)
(* std::fs primitives.                                                     *)
(***************************************************************************)
Prefixes(p) == {SubSeq(p, 1, n) : n \in 0..Len(p)}

\* fs::create_dir_all: fails when a component of the path is a file.
create_dir_all_ok(f, p) == \A q \in Prefixes(p) : ~IsFile(f, q)

create_dir_all(f, p) ==
    [q \in DOMAIN f \cup Prefixes(p) |-> IF q \in Prefixes(p) THEN "dir" ELSE f[q]]

\* fs::write: the parent must be a directory and the target not a directory.
write_ok(f, p) == IsDir(f, Parent(p)) /\ ~IsDir(f, p)

write(f, p) == [q \in DOMAIN f \cup {p} |-> IF q = p THEN "file" ELSE f[q]]

\* fs::remove_dir_all / fs::remove_file
remove_all(f, p) == [q \in {x \in DOMAIN f : ~IsPrefix(p, x)} |-> f[q]]

\* Path::canonicalize, without symbolic links: "." and ".." are resolved and
\* every component has to exist.
IsRelative(p) == Len(p) > 0 /\ p[1] \in {".", ".."}

RECURSIVE resolve(_, _, _)
resolve(f, cur, rest) ==
    IF rest = <<>> THEN Ok(cur)
    ELSE IF Head(rest) = "." THEN
        IF IsDir(f, cur) THEN resolve(f, cur, Tail(rest))
        ELSE Err("Canonicalize", cur, <<>>)
    ELSE IF Head(rest) = ".." THEN
        IF IsDir(f, cur)
        THEN resolve(f, IF HasParent(cur) THEN Parent(cur) ELSE cur, Tail(rest))
        ELSE Err("Canonicalize", cur, <<>>)
    ELSE IF IsDir(f, cur) /\ Exists(f, Join(cur, Head(rest)))
        THEN resolve(f, Join(cur, Head(rest)), Tail(rest))
        ELSE Err("Canonicalize", cur, <<>>)

canonicalize(f, dir, p) ==
    IF IsRelative(p) THEN resolve(f, dir, p) ELSE resolve(f, FsRoot, p)

(***************************************************************************)
(* utils.rs: find_project_root                                             *)
(***************************************************************************)
MarkerName == "ao.toml"

\* variant: looks only at the start directory, never at a parent
walk_up_no_ascend(f, current_path, start) ==
    IF IsFile(f, Join(current_path, MarkerName)) THEN Ok(current_path)
    ELSE Err("RootNotFound", start, <<>>)

\* variant: any entry named ao.toml counts as the marker, also a directory
RECURSIVE walk_up_exists(_, _, _)
walk_up_exists(f, current_path, start) ==
    IF Exists(f, Join(current_path, MarkerName)) THEN Ok(current_path)
    ELSE IF HasParent(current_path) THEN walk_up_exists(f, Parent(current_path), start)
    ELSE Err("RootNotFound", start, <<>>)

RECURSIVE walk_up(_, _, _)
walk_up(f, current_path, start) ==
    IF IsFile(f, Join(current_path, MarkerName)) THEN Ok(current_path)
    ELSE IF HasParent(current_path) THEN
        IF Parent(current_path) = current_path
        THEN Err("RootNotFound", start, <<>>)
        ELSE walk_up(f, Parent(current_path), start)
    ELSE Err("RootNotFound", start, <<>>)

find_project_root(f, dir, start) ==
    LET c == canonicalize(f, dir, start)
    IN  IF ~c.ok THEN WithContext(c, "FailedToCanonicalize", start, <<>>)
        ELSE walk_up(f, c.path, start)

(***************************************************************************)
(* Command strings and the configuration file.                             *)
(***************************************************************************)
SP == " "
DQ == "\""

MkdirOut == <<"mkdir", SP, "build_output">>
LsMissing == <<"ls", SP, "non_existent_file_in_task">>
EchoHello == <<"echo", SP, "hello">>
RuffCheck == <<"ruff", SP, "check", SP, ".">>
EchoLinter == <<"echo", SP, "Linter", SP, "OK">>
EchoTester == <<"echo", SP, "Tester", SP, "OK">>
EchoQuoted == <<"echo", SP, DQ, "hello", SP, "world", DQ>>
EchoUnbalanced == <<"echo", SP, DQ, "hello">>
EmptyCmd == <<>>
Spaces == <<SP, SP>>

NoTasks == [n \in {} |-> <<>>]

\* The text of an ao.toml file, by what it declares.
BaseText(name) ==
    [syntax_ok |-> TRUE, has_project |-> TRUE, has_name |-> TRUE, name |-> name,
     has_check |-> FALSE, has_linters |-> FALSE, linters |-> <<>>,
     has_testers |-> FALSE, testers |-> <<>>,
     has_tasks |-> FALSE, tasks |-> NoTasks, bad_type |-> "none"]

\* init.rs: the ao.toml written by init
DefaultText(name) ==
    [BaseText(name) EXCEPT !.has_check = TRUE, !.has_linters = TRUE, !.has_testers = TRUE]

\* check.rs tests: add_check_config
CheckText(name) ==
    [BaseText(name) EXCEPT !.has_check = TRUE,
        !.has_linters = TRUE, !.linters = <<RuffCheck, EchoLinter>>,
        !.has_testers = TRUE, !.testers = <<EchoTester>>]

\* run.rs tests: a project with tasks
TasksText(name) ==
    [BaseText(name) EXCEPT !.has_tasks = TRUE,
        !.tasks = [n \in {"build", "quoted", "empty", "blank", "spaces"} |->
                     IF n = "build" THEN <<MkdirOut, LsMissing, EchoHello>>
                     ELSE IF n = "quoted" THEN <<EchoQuoted, EchoUnbalanced>>
                     ELSE IF n = "blank" THEN <<EmptyCmd>>
                     ELSE IF n = "spaces" THEN <<Spaces>>
                     ELSE <<>>]]

MalformedText == [BaseText("") EXCEPT !.syntax_ok = FALSE]

UserTexts == {CheckText("p"), TasksText("p"), MalformedText}

TaskNames == {"build", "quoted", "empty", "blank", "spaces", "deploy"}

(***************************************************************************)
(* config.rs: Config, load_config                                          *)
(***************************************************************************)
NoConfig == [name |-> "", linters |-> <<>>, testers |-> <<>>, tasks |-> NoTasks]

ConfigOk(c) == [ok |-> TRUE, config |-> c, err |-> <<>>]

ConfigErr(kind, arg, arg2) ==
    [ok |-> FALSE, config |-> NoConfig, err |-> <<Layer(kind, arg, arg2)>>]

\* variant: a [project] table without a name loads with an empty name
from_str_default_name(t) ==
    IF ~t.syntax_ok THEN ConfigErr("TomlSyntax", <<>>, <<>>)
    ELSE IF t.bad_type # "none" THEN ConfigErr("InvalidType", <<t.bad_type>>, <<>>)
    ELSE IF ~t.has_project THEN ConfigErr("MissingField", <<"project">>, <<>>)
    ELSE ConfigOk([name |-> t.name,
                   linters |-> IF t.has_check /\ t.has_linters THEN t.linters ELSE <<>>,
                   testers |-> IF t.has_check /\ t.has_testers THEN t.testers ELSE <<>>,
                   tasks |-> IF t.has_tasks THEN t.tasks ELSE NoTasks])

\* toml::from_str into Config (serde defaults for check, linters, testers, tasks)
from_str(t) ==
    IF ~t.syntax_ok THEN ConfigErr("TomlSyntax", <<>>, <<>>)
    ELSE IF t.bad_type # "none" THEN ConfigErr("InvalidType", <<t.bad_type>>, <<>>)
    ELSE IF ~t.has_project THEN ConfigErr("MissingField", <<"project">>, <<>>)
    ELSE IF ~t.has_name THEN ConfigErr("MissingField", <<"name">>, <<>>)
    ELSE ConfigOk([name |-> t.name,
                   linters |-> IF t.has_check /\ t.has_linters THEN t.linters ELSE <<>>,
                   testers |-> IF t.has_check /\ t.has_testers THEN t.testers ELSE <<>>,
                   tasks |-> IF t.has_tasks THEN t.tasks ELSE NoTasks])

load_config(f, c, project_root) ==
    LET config_path == Join(project_root, MarkerName)
    IN  IF ~Exists(f, config_path) THEN ConfigErr("ConfigNotFound", config_path, <<>>)
        ELSE IF ~IsFile(f, config_path)
            THEN [ok |-> FALSE, config |-> NoConfig,
                  err |-> <<Layer("FailedToReadConfig", config_path, <<>>),
                            Layer("Io", config_path, <<>>)>>]
        ELSE LET parsed == from_str(c[config_path])
             IN  IF parsed.ok THEN parsed
                 ELSE [parsed EXCEPT !.err =
                         <<Layer("FailedToParseConfig", config_path, <<>>)>> \o parsed.err]

(***************************************************************************)
(* utils.rs: run_tool                                                      *)
(***************************************************************************)
\* shlex::split over chunks: blanks separate words, double quotes group.
RECURSIVE shlex_scan(_, _, _, _, _)
shlex_scan(rest, parts, word, inword, quoted) ==
    IF rest = <<>> THEN
        IF quoted THEN [ok |-> FALSE, parts |-> <<>>]
        ELSE [ok |-> TRUE, parts |-> IF inword THEN Append(parts, word) ELSE parts]
    ELSE IF quoted THEN
        IF Head(rest) = DQ THEN shlex_scan(Tail(rest), parts, word, TRUE, FALSE)
        ELSE shlex_scan(Tail(rest), parts, Append(word, Head(rest)), TRUE, TRUE)
    ELSE IF Head(rest) = SP THEN
        IF inword THEN shlex_scan(Tail(rest), Append(parts, word), <<>>, FALSE, FALSE)
        ELSE shlex_scan(Tail(rest), parts, word, FALSE, FALSE)
    ELSE IF Head(rest) = DQ THEN shlex_scan(Tail(rest), parts, word, TRUE, TRUE)
    ELSE shlex_scan(Tail(rest), parts, Append(word, Head(rest)), TRUE, FALSE)

shlex_split(command_str) == shlex_scan(command_str, <<>>, <<>>, FALSE, FALSE)

\* Exit of a spawned process: status zero, status non-zero, or not launched.
Outcomes == {"ok", "fail", "spawn_error"}

\* variant: run_tool spawns whatever the command string is
run_tool_parse_spawns_anyway(command_str) == Ok(NoPath)

\* What run_tool does before it spawns: "spawn", or the error it returns.
run_tool_parse(command_str) ==
    LET parts == shlex_split(command_str)
    IN  IF ~parts.ok THEN Err("FailedToParseCommand", command_str, <<>>)
        ELSE IF parts.parts = <<>> THEN Err("NoExecutableParts", command_str, <<>>)
        ELSE Ok(NoPath)

\* What run_tool does once the process it waited for has exited.  `waited`
\* is the number of processes it had waited for before this one.
\* "return" with a result, or "again": it builds the command anew and spawns.
run_tool_after(command_str, waited, outcome) ==
    IF outcome = "spawn_error"
        THEN [next |-> "return", result |-> Err("FailedToExecute", command_str, <<>>)]
    ELSE IF outcome = "ok"
        THEN [next |-> "return", result |-> Ok(NoPath)]
    ELSE IF waited = 0
        THEN [next |-> "again", result |-> Pending]
    ELSE [next |-> "return", result |-> Err("ToolFailed", command_str, <<>>)]

(***************************************************************************)
(* init.rs: run                                                            *)
(***************************************************************************)
services == <<"api-service", "model-service", "model-interface">>

MkDirs(p) == [k |-> "create_dir_all", p |-> p]

WriteTo(p) == [k |-> "write", p |-> p]

\* variant: init leaves out the tests directory of each service
service_ops_without_tests(project, service) ==
    LET service_path == Join(project, service)
    IN  IF service = "api-service" THEN
            <<MkDirs(service_path),
              WriteTo(Join(service_path, "README.md")),
              WriteTo(Join(service_path, "Dockerfile")),
              WriteTo(Join(service_path, "requirements.txt")),
              WriteTo(Join(service_path, "main.py"))>>
        ELSE IF service = "model-service" THEN
            <<MkDirs(service_path),
              WriteTo(Join(service_path, "README.md")),
              WriteTo(Join(service_path, "Dockerfile")),
              WriteTo(Join(service_path, "requirements.txt")),
              WriteTo(Join(service_path, "server.py"))>>
        ELSE
            <<MkDirs(service_path),
              WriteTo(Join(service_path, "README.md")),
              WriteTo(Join(service_path, "anops.proto"))>>

\* The filesystem calls init makes for one service, in order.
service_ops(project, service) ==
    LET service_path == Join(project, service)
    IN  IF service = "api-service" THEN
            <<MkDirs(service_path),
              WriteTo(Join(service_path, "README.md")),
              WriteTo(Join(service_path, "Dockerfile")),
              WriteTo(Join(service_path, "requirements.txt")),
              WriteTo(Join(service_path, "main.py")),
              MkDirs(Join(service_path, "tests")),
              WriteTo(Join(Join(service_path, "tests"), "test_main.py"))>>
        ELSE IF service = "model-service" THEN
            <<MkDirs(service_path),
              WriteTo(Join(service_path, "README.md")),
              WriteTo(Join(service_path, "Dockerfile")),
              WriteTo(Join(service_path, "requirements.txt")),
              WriteTo(Join(service_path, "server.py")),
              MkDirs(Join(service_path, "tests")),
              WriteTo(Join(Join(service_path, "tests"), "test_server.py"))>>
        ELSE
            <<MkDirs(service_path),
              WriteTo(Join(service_path, "README.md")),
              WriteTo(Join(service_path, "anops.proto"))>>

\* All filesystem calls of init, in order.
init_ops(project) ==
    <<MkDirs(project), WriteTo(Join(project, MarkerName))>>
    \o service_ops(project, services[1])
    \o service_ops(project, services[2])
    \o service_ops(project, services[3])
    \o <<WriteTo(Join(project, "README.md")), WriteTo(Join(project, ".gitignore"))>>

\* Runs the calls in order; the first failing call ends it (the `?` operator).
RECURSIVE apply_ops(_, _)
apply_ops(f, ops) ==
    IF ops = <<>> THEN [ok |-> TRUE, fs |-> f, failed |-> NoPath]
    ELSE LET o == Head(ops)
         IN  IF o.k = "create_dir_all" THEN
                 IF create_dir_all_ok(f, o.p)
                 THEN apply_ops(create_dir_all(f, o.p), Tail(ops))
                 ELSE [ok |-> FALSE, fs |-> f, failed |-> o.p]
             ELSE IF write_ok(f, o.p)
                 THEN apply_ops(write(f, o.p), Tail(ops))
                 ELSE [ok |-> FALSE, fs |-> f, failed |-> o.p]

project_name_of(project) ==
    IF Len(project) = 0 \/ FileName(project) = ".." THEN "anops-project"
    ELSE FileName(project)

\* The ao.toml texts after the calls: every ao.toml that is no longer a file
\* loses its text, the one init wrote gets the default text.
texts_after(f, c, written, text) ==
    [q \in {x \in DOMAIN f : f[x] = "file" /\ FileName(x) = MarkerName} |->
        IF q \in written THEN text
        ELSE IF q \in DOMAIN c THEN c[q] ELSE text]

\* variant: init leaves the text of an ao.toml that is already there
init_run_keeps_existing(f, c, project) ==
    LET done == apply_ops(f, init_ops(project))
        marker == Join(project, MarkerName)
        wrote == /\ IsFile(done.fs, marker) /\ (done.ok \/ done.failed # marker)
                 /\ ~IsFile(f, marker)
    IN  [result |-> IF done.ok THEN Ok(project) ELSE Err("InitIo", done.failed, <<>>),
         fs |-> done.fs,
         cfg |-> texts_after(done.fs, c, IF wrote THEN {marker} ELSE {},
                             DefaultText(project_name_of(project)))]

init_run(f, c, project) ==
    LET done == apply_ops(f, init_ops(project))
        marker == Join(project, MarkerName)
        wrote == IsFile(done.fs, marker) /\ (done.ok \/ done.failed # marker)
    IN  [result |-> IF done.ok THEN Ok(project) ELSE Err("InitIo", done.failed, <<>>),
         fs |-> done.fs,
         cfg |-> texts_after(done.fs, c, IF wrote THEN {marker} ELSE {},
                             DefaultText(project_name_of(project)))]

(***************************************************************************)
(* check.rs: run -- structure checks                                       *)
(***************************************************************************)
required_dirs == <<"api-service", "model-service", "model-interface">>

required_files ==
    << <<"api-service", "Dockerfile">>,
       <<"api-service", "requirements.txt">>,
       <<"api-service", "anops_pb2.py">>,
       <<"api-service", "anops_pb2_grpc.py">>,
       <<"model-service", "Dockerfile">>,
       <<"model-service", "requirements.txt">>,
       <<"model-service", "anops_pb2.py">>,
       <<"model-service", "anops_pb2_grpc.py">>,
       <<"model-interface", "anops.proto">> >>

RECURSIVE check_dirs(_, _, _)
check_dirs(f, root, i) ==
    IF i > Len(required_dirs) THEN Ok(root)
    ELSE LET dir_path == Join(root, required_dirs[i])
         IN  IF ~Exists(f, dir_path)
                 THEN Err("RequiredDirectoryNotFound", dir_path, <<required_dirs[i]>>)
             ELSE IF ~IsDir(f, dir_path)
                 THEN Err("NotADirectory", dir_path, <<required_dirs[i]>>)
             ELSE check_dirs(f, root, i + 1)

RECURSIVE check_files(_, _, _)
check_files(f, root, i) ==
    IF i > Len(required_files) THEN Ok(root)
    ELSE LET dir_name == required_files[i][1]
             file_name == required_files[i][2]
             file_path == Join(Join(root, dir_name), file_name)
         IN  IF ~Exists(f, file_path)
                 THEN Err("RequiredFileNotFound", <<file_name>>, <<dir_name>>)
             ELSE IF ~IsFile(f, file_path)
                 THEN Err("NotAFile", file_path, <<>>)
             ELSE check_files(f, root, i + 1)

\* variant: the required files are not checked
structure_checks_dirs_only(f, root) == check_dirs(f, root, 1)

\* variant: the required files are checked before the required directories
structure_checks_files_first(f, root) ==
    LET d == check_files(f, root, 1)
    IN  IF ~d.ok THEN d ELSE check_dirs(f, root, 1)

structure_checks(f, root) ==
    LET d == check_dirs(f, root, 1)
    IN  IF ~d.ok THEN d ELSE check_files(f, root, 1)

(***************************************************************************)
(* The flows: run.rs, check.rs and build.rs up to their first process.     *)
(***************************************************************************)
Begin(r, root, conf, at) == [result |-> r, project_path |-> root, config |-> conf, pc |-> at]

Failed(r) == Begin(r, NoPath, NoConfig, "done")

ConfigFailure(l) == [ok |-> FALSE, path |-> NoPath, err |-> l.err]

\* build.rs: the image builds, each skipped when its directory is absent
enter_model(f, root) ==
    IF IsDir(f, Join(root, "model-service")) THEN "docker_model" ELSE "done"

enter_api(f, root) ==
    IF IsDir(f, Join(root, "api-service")) THEN "docker_api" ELSE enter_model(f, root)

\* where control goes when check::run returns Ok
after_check(o, f, build_root) ==
    IF o = "check" THEN "done" ELSE enter_api(f, build_root)

\* check.rs: the tester loop, skipped when no tester is configured
enter_testers(conf, o, f, build_root) ==
    IF conf.testers # <<>> THEN "testers" ELSE after_check(o, f, build_root)

\* variant: build goes on to the images without running linters and testers
enter_linters_skipped_in_build(conf, o, f, build_root) ==
    IF o = "build" THEN after_check(o, f, build_root)
    ELSE IF conf.linters # <<>> THEN "linters"
    ELSE enter_testers(conf, o, f, build_root)

\* check.rs: the linter loop, skipped when no linter is configured
enter_linters(conf, o, f, build_root) ==
    IF conf.linters # <<>> THEN "linters" ELSE enter_testers(conf, o, f, build_root)

\* variant: the root is looked up again before the configuration is loaded
entry_calls_repeated(f, dir, start) ==
    [locate |-> 2, load |-> IF find_project_root(f, dir, start).ok THEN 1 ELSE 0]

\* run.rs, check.rs, build.rs: each calls find_project_root once, and
\* load_config once when a root was found
entry_calls(f, dir, start) ==
    [locate |-> 1, load |-> IF find_project_root(f, dir, start).ok THEN 1 ELSE 0]

\* variant: a task whose command list is empty is reported as not found
run_begin_empty_not_found(f, c, dir, start, tname) ==
    LET r == find_project_root(f, dir, start)
        l == load_config(f, c, r.path)
    IN  IF ~r.ok THEN Failed(WithContext(r, "FailedToFindProjectRoot", start, <<>>))
        ELSE IF ~l.ok
            THEN Failed(WithContext(ConfigFailure(l), "FailedToLoadConfig", <<>>, <<>>))
        ELSE IF tname \in DOMAIN l.config.tasks /\ l.config.tasks[tname] # <<>>
            THEN Begin(Pending, r.path, l.config, "task")
        ELSE Begin(Err("TaskNotFound", <<tname>>, <<>>), r.path, l.config, "done")

\* variant: a task name that is not declared is taken as an empty task
run_begin_absent_as_empty(f, c, dir, start, tname) ==
    LET r == find_project_root(f, dir, start)
        l == load_config(f, c, r.path)
    IN  IF ~r.ok THEN Failed(WithContext(r, "FailedToFindProjectRoot", start, <<>>))
        ELSE IF ~l.ok
            THEN Failed(WithContext(ConfigFailure(l), "FailedToLoadConfig", <<>>, <<>>))
        ELSE IF tname \in DOMAIN l.config.tasks /\ l.config.tasks[tname] # <<>>
            THEN Begin(Pending, r.path, l.config, "task")
        ELSE Begin(Ok(NoPath), r.path, l.config, "done")

\* run.rs: run, up to the first command of the task
run_begin(f, c, dir, start, tname) ==
    LET r == find_project_root(f, dir, start)
        l == load_config(f, c, r.path)
    IN  IF ~r.ok THEN Failed(WithContext(r, "FailedToFindProjectRoot", start, <<>>))
        ELSE IF ~l.ok
            THEN Failed(WithContext(ConfigFailure(l), "FailedToLoadConfig", <<>>, <<>>))
        ELSE IF tname \in DOMAIN l.config.tasks THEN
            IF l.config.tasks[tname] = <<>>
            THEN Begin(Ok(NoPath), r.path, l.config, "done")
            ELSE Begin(Pending, r.path, l.config, "task")
        ELSE Begin(Err("TaskNotFound", <<tname>>, <<>>), r.path, l.config, "done")

\* check.rs: run, up to the first linter or tester
check_begin(f, c, dir, start, o, build_root) ==
    LET r == find_project_root(f, dir, start)
        l == load_config(f, c, r.path)
        v == structure_checks(f, r.path)
    IN  IF ~r.ok THEN Failed(WithContext(r, "FailedToFindProjectRoot", start, <<>>))
        ELSE IF ~l.ok
            THEN Failed(WithContext(ConfigFailure(l), "FailedToLoadConfig", <<>>, <<>>))
        ELSE IF ~v.ok THEN Begin(v, r.path, l.config, "done")
        ELSE LET at == enter_linters(l.config, o, f, build_root)
             IN  Begin(IF at = "done" THEN Ok(NoPath) ELSE Pending, r.path, l.config, at)

\* variant: the generator is spawned whether or not the proto file exists
generate_prepare_without_proto(f, root) ==
    LET api == Join(root, "api-service")
        model == Join(root, "model-service")
    IN  IF ~create_dir_all_ok(f, api)
            THEN [result |-> Err("FailedToEnsureDir", api, <<>>), fs |-> f]
        ELSE IF ~create_dir_all_ok(create_dir_all(f, api), model)
            THEN [result |-> Err("FailedToEnsureDir", model, <<>>),
                  fs |-> create_dir_all(f, api)]
        ELSE [result |-> Ok(root), fs |-> create_dir_all(create_dir_all(f, api), model)]

\* utils.rs: generate_grpc_code, up to the spawn of the generator
generate_prepare(f, root) ==
    LET proto_file == Join(Join(root, "model-interface"), "anops.proto")
        api == Join(root, "api-service")
        model == Join(root, "model-service")
    IN  IF ~Exists(f, proto_file)
            THEN [result |-> Err("ProtoFileNotFound", proto_file, <<>>), fs |-> f]
        ELSE IF ~create_dir_all_ok(f, api)
            THEN [result |-> Err("FailedToEnsureDir", api, <<>>), fs |-> f]
        ELSE IF ~create_dir_all_ok(create_dir_all(f, api), model)
            THEN [result |-> Err("FailedToEnsureDir", model, <<>>),
                  fs |-> create_dir_all(f, api)]
        ELSE [result |-> Ok(root), fs |-> create_dir_all(create_dir_all(f, api), model)]

\* variant: the generator is prepared before the configuration is looked at
build_begin_generate_first(f, c, dir, start) ==
    LET r == find_project_root(f, dir, start)
        l == load_config(f, c, r.path)
        g == generate_prepare(f, r.path)
    IN  IF ~r.ok
            THEN [b |-> Failed(WithContext(r, "FailedToFindProjectRoot", start, <<>>)),
                  fs |-> f]
        ELSE IF ~g.result.ok
            THEN [b |-> Begin(WithContext(g.result, "FailedToGenerate", <<>>, <<>>),
                              r.path, l.config, "done"),
                  fs |-> g.fs]
        ELSE [b |-> Begin(Pending, r.path, l.config, "generate"), fs |-> g.fs]

\* build.rs: run, up to the spawn of the generator
build_begin(f, c, dir, start) ==
    LET r == find_project_root(f, dir, start)
        l == load_config(f, c, r.path)
        g == generate_prepare(f, r.path)
    IN  IF ~r.ok
            THEN [b |-> Failed(WithContext(r, "FailedToFindProjectRoot", start, <<>>)),
                  fs |-> f]
        ELSE IF ~l.ok
            THEN [b |-> Failed(WithContext(ConfigFailure(l), "FailedToLoadConfig", <<>>, <<>>)),
                  fs |-> f]
        ELSE IF ~g.result.ok
            THEN [b |-> Begin(WithContext(g.result, "FailedToGenerate", <<>>, <<>>),
                              r.path, l.config, "done"),
                  fs |-> g.fs]
        ELSE [b |-> Begin(Pending, r.path, l.config, "generate"), fs |-> g.fs]

\* The files the generator leaves behind when it exits with status zero.
stub_files(root) ==
    {Join(Join(root, d), n) : d \in {"api-service", "model-service"},
                              n \in {"anops_pb2.py", "anops_pb2_grpc.py"}}

generated(f, root) ==
    [q \in DOMAIN f \cup stub_files(root) |-> IF q \in stub_files(root) THEN "file" ELSE f[q]]

(***************************************************************************)
(* The command loops of run, check and build.                              *)
(***************************************************************************)
ToolSites == {"task", "linters", "testers", "docker_api", "docker_model"}

GeneratorCmd == <<"python", SP, "-m", SP, "grpc_tools.protoc">>

\* variant: the image is tagged with the name ao.toml holds when it is built
docker_cmd_current_name(name, service) ==
    <<"docker", SP, "build", SP, "-t", SP,
      cfg[Join(outer.project_path, MarkerName)].name, "-", service, ":latest", SP, ".">>

\* build.rs: "docker build -t {}-<service>:latest ."
docker_cmd(name, service) ==
    <<"docker", SP, "build", SP, "-t", SP, name, "-", service, ":latest", SP, ".">>

Reverse(q) == [i \in 1..Len(q) |-> q[Len(q) + 1 - i]]

\* variant: the commands of a task are taken last to first
commands_at_reversed(at, conf, tname, name) ==
    IF at = "task" THEN Reverse(conf.tasks[tname])
    ELSE IF at = "linters" THEN conf.linters
    ELSE IF at = "testers" THEN conf.testers
    ELSE IF at = "docker_api" THEN <<docker_cmd(name, "api-service")>>
    ELSE <<docker_cmd(name, "model-service")>>

commands_at(at, conf, tname, name) ==
    IF at = "task" THEN conf.tasks[tname]
    ELSE IF at = "linters" THEN conf.linters
    ELSE IF at = "testers" THEN conf.testers
    ELSE IF at = "docker_api" THEN <<docker_cmd(name, "api-service")>>
    ELSE <<docker_cmd(name, "model-service")>>

\* variant: the processes are left in the directory the tool was started in
dir_at_ambient(at, root, build_root) == cwd

\* the working directory each call site hands to run_tool
dir_at(at, root, build_root) ==
    IF at = "docker_api" THEN Join(build_root, "api-service")
    ELSE IF at = "docker_model" THEN Join(build_root, "model-service")
    ELSE root

\* variant: the context of a call site replaces the error of run_tool
tool_context_replaces(r, at, o, cmd, tname) ==
    IF at = "task" THEN Err("CommandFailed", cmd, <<tname>>)
    ELSE IF at = "linters" THEN Err("LinterFailed", cmd, <<>>)
    ELSE IF at = "testers" THEN Err("TesterFailed", cmd, <<>>)
    ELSE IF at = "docker_api" THEN Err("FailedToBuildApiImage", cmd, <<>>)
    ELSE Err("FailedToBuildModelImage", cmd, <<>>)

\* the context each call site wraps around an error of run_tool
tool_context(r, at, o, cmd, tname) ==
    LET inner ==
            IF at = "task" THEN WithContext(r, "CommandFailed", cmd, <<tname>>)
            ELSE IF at = "linters" THEN WithContext(r, "LinterFailed", cmd, <<>>)
            ELSE IF at = "testers" THEN WithContext(r, "TesterFailed", cmd, <<>>)
            ELSE IF at = "docker_api" THEN WithContext(r, "FailedToBuildApiImage", cmd, <<>>)
            ELSE WithContext(r, "FailedToBuildModelImage", cmd, <<>>)
    IN  IF o = "build" /\ at \in {"linters", "testers"}
        THEN WithContext(inner, "PreBuildChecksFailed", <<>>, <<>>)
        ELSE inner

\* where a loop goes after its last command
after_loop(at, conf, o, f, build_root) ==
    IF at = "task" THEN "done"
    ELSE IF at = "linters" THEN enter_testers(conf, o, f, build_root)
    ELSE IF at = "testers" THEN after_check(o, f, build_root)
    ELSE IF at = "docker_api" THEN enter_model(f, build_root)
    ELSE "done"

\* the next position of a loop whose command at index i returned Ok
next_position(at, i, n, conf, o, f, build_root) ==
    IF i < n THEN [pc |-> at, idx |-> i + 1]
    ELSE [pc |-> after_loop(at, conf, o, f, build_root), idx |-> 1]

\* What a spawned process may do to the ao.toml of the project while it runs.
Effects == {"none", "rewrite"}

\* the ao.toml a spawned process leaves when it rewrites the file
RewrittenText ==
    [BaseText("q") EXCEPT !.has_check = TRUE,
        !.has_linters = TRUE, !.linters = <<EchoHello>>,
        !.has_tasks = TRUE, !.tasks = [n \in {"build"} |-> <<EchoHello>>]]

rewrite(c, root, effect) ==
    IF effect = "rewrite" THEN [c EXCEPT ![Join(root, MarkerName)] = RewrittenText] ELSE c

Spawned(at, i, cmd, dir, outcome, effect) ==
    [site |-> at, idx |-> i, cmd |-> cmd, dir |-> dir, status |-> outcome,
     effect |-> effect]

(***************************************************************************)
(* Inputs.                                                                 *)
(***************************************************************************)
Deep == <<"w", "p", "models", "deep">>

InitPaths == {Proj, Nested}

StartPaths ==
    {Proj, Join(Proj, "api-service"), Join(Join(Proj, "api-service"), "tests"),
     Nested, Deep, Outside, <<"w", "missing">>, <<".">>,
     <<"w", "p", "api-service", "..">>}

\* the start paths the flows are started on
FlowPaths == {Proj, Join(Proj, "api-service"), Nested, Outside, <<"w", "missing">>, <<".">>}

Cwds == {Work, Join(Proj, "model-service")}

\* what a user may create by hand: plain directories, and a directory that
\* happens to be named ao.toml
UserDirs == {Nested, Deep, Join(Nested, MarkerName)}

\* what a user may delete by hand
Removable ==
    {Join(Proj, required_dirs[i]) : i \in 1..Len(required_dirs)}
    \cup {Join(Join(Proj, required_files[i][1]), required_files[i][2]) :
            i \in 1..Len(required_files)}
    \cup {Join(Proj, MarkerName)}

NoOuter == [project_path |-> NoPath, name |-> ""]

NoFiles == [q \in {} |-> "dir"]

NoTexts == [q \in {} |-> MalformedText]

NoCalls == [locate |-> 0, load |-> 0]

(***************************************************************************)
(* Initial state: an empty work directory, the tool not running.           *)
(***************************************************************************)
Init ==
    /\ fs = [q \in {FsRoot, Work, Outside} |-> "dir"]
    /\ cfg = [q \in {} |-> MalformedText]
    /\ edits = 0
    /\ op = "none"
    /\ pc = "idle"
    /\ start_path = NoPath
    /\ cwd = NoPath
    /\ task_name = ""
    /\ project_path = NoPath
    /\ config = NoConfig
    /\ idx = 1
    /\ outer = NoOuter
    /\ attempt = 0
    /\ log = <<>>
    /\ started = NoFiles
    /\ started_cfg = NoTexts
    /\ calls = NoCalls
    /\ walk_path = NoPath
    /\ running = <<>>
    /\ result = Pending

Idle == pc = "idle"

Invocation(o, start, dir, tname) ==
    /\ op' = o
    /\ start_path' = start
    /\ cwd' = dir
    /\ task_name' = tname
    /\ idx' = 1
    /\ attempt' = 0
    /\ log' = <<>>
    /\ started' = fs
    /\ started_cfg' = cfg
    /\ walk_path' = NoPath
    /\ running' = <<>>

ValidStart(start, dir) ==
    /\ IsDir(fs, dir)
    /\ IsRelative(start) \/ dir = Work

(***************************************************************************)
(* The user edits the tree between two invocations of the tool.            *)
(***************************************************************************)
KeepTexts(f) == texts_after(f, cfg, {}, MalformedText)

UserRemove(p) ==
    /\ Idle /\ edits < MaxEdits
    /\ Exists(fs, p)
    /\ fs' = remove_all(fs, p)
    /\ cfg' = KeepTexts(fs')
    /\ edits' = edits + 1
    /\ UNCHANGED <<op, pc, start_path, cwd, task_name, project_path, config, idx,
                   outer, attempt, log, started, started_cfg, calls, walk_path,
                   running,
                   result>>

UserMkdir(p) ==
    /\ Idle /\ edits < MaxEdits
    /\ ~Exists(fs, p)
    /\ create_dir_all_ok(fs, p)
    /\ fs' = create_dir_all(fs, p)
    /\ edits' = edits + 1
    /\ UNCHANGED <<cfg, op, pc, start_path, cwd, task_name, project_path, config, idx,
                   outer, attempt, log, started, started_cfg, calls, walk_path,
                   running,
                   result>>

UserWriteConfig(text) ==
    /\ Idle /\ edits < MaxEdits
    /\ IsFile(fs, Join(Proj, MarkerName))
    /\ cfg[Join(Proj, MarkerName)] # text
    /\ cfg' = [cfg EXCEPT ![Join(Proj, MarkerName)] = text]
    /\ edits' = edits + 1
    /\ UNCHANGED <<fs, op, pc, start_path, cwd, task_name, project_path, config, idx,
                   outer, attempt, log, started, started_cfg, calls, walk_path,
                   running,
                   result>>

(***************************************************************************)
(* ao init <path>                                                          *)
(***************************************************************************)
InitRun(path) ==
    /\ Idle
    /\ LET r == init_run(fs, cfg, path)
       IN  /\ fs' = r.fs
           /\ cfg' = r.cfg
           /\ result' = r.result
    /\ Invocation("init", path, Work, "")
    /\ calls' = NoCalls
    /\ pc' = "done"
    /\ UNCHANGED <<edits, project_path, config, outer>>

(***************************************************************************)
(* utils::find_project_root called on its own                              *)
(***************************************************************************)
Locate(start, dir) ==
    /\ Idle
    /\ ValidStart(start, dir)
    /\ result' = find_project_root(fs, dir, start)
    /\ Invocation("locate", start, dir, "")
    /\ calls' = [locate |-> 1, load |-> 0]
    /\ pc' = "done"
    /\ UNCHANGED <<fs, cfg, edits, project_path, config, outer>>

(***************************************************************************)
(* ao run <task> [path]                                                    *)
(***************************************************************************)
StartRun(tname, start, dir) ==
    /\ Idle
    /\ ValidStart(start, dir)
    /\ LET b == run_begin(fs, cfg, dir, start, tname)
       IN  /\ result' = b.result
           /\ project_path' = b.project_path
           /\ config' = b.config
           /\ pc' = b.pc
    /\ Invocation("run", start, dir, tname)
    /\ calls' = entry_calls(fs, dir, start)
    /\ UNCHANGED <<fs, cfg, edits, outer>>

(***************************************************************************)
(* ao check [path]                                                         *)
(***************************************************************************)
StartCheck(start, dir) ==
    /\ Idle
    /\ ValidStart(start, dir)
    /\ LET b == check_begin(fs, cfg, dir, start, "check", NoPath)
       IN  /\ result' = b.result
           /\ project_path' = b.project_path
           /\ config' = b.config
           /\ pc' = b.pc
    /\ Invocation("check", start, dir, "")
    /\ calls' = entry_calls(fs, dir, start)
    /\ UNCHANGED <<fs, cfg, edits, outer>>

(***************************************************************************)
(* ao build [path]                                                         *)
(***************************************************************************)
StartBuild(start, dir) ==
    /\ Idle
    /\ ValidStart(start, dir)
    /\ LET b == build_begin(fs, cfg, dir, start)
       IN  /\ result' = b.b.result
           /\ project_path' = b.b.project_path
           /\ config' = b.b.config
           /\ pc' = b.b.pc
           /\ outer' = [project_path |-> b.b.project_path, name |-> b.b.config.name]
           /\ fs' = b.fs
    /\ Invocation("build", start, dir, "")
    /\ calls' = entry_calls(fs, dir, start)
    /\ UNCHANGED <<cfg, edits>>

\* a process that rewrites the ao.toml under root: it exits with status zero,
\* the file is a regular file, and the edits of the model are not used up
CanRewrite(root, outcome, effect) ==
    effect = "rewrite" =>
        /\ outcome = "ok"
        /\ edits < MaxEdits
        /\ IsFile(fs, Join(root, MarkerName))
        /\ cfg[Join(root, MarkerName)] # RewrittenText

\* generate_grpc_code waits for the generator, then build calls check::run
\* with the path it was given.
GenerateExit(outcome, effect) ==
    /\ pc = "generate"
    /\ outcome = "ok" => \A q \in stub_files(outer.project_path) : write_ok(fs, q)
    /\ CanRewrite(outer.project_path, outcome, effect)
    /\ cfg' = rewrite(cfg, outer.project_path, effect)
    /\ edits' = IF effect = "rewrite" THEN edits + 1 ELSE edits
    /\ log' = Append(log, Spawned("generate", 1, GeneratorCmd, outer.project_path, outcome,
                                  effect))
    /\ IF outcome = "ok" THEN
            /\ fs' = generated(fs, outer.project_path)
            /\ LET b == check_begin(fs', cfg', cwd, start_path, "build", outer.project_path)
               IN  /\ result' = WithContext(b.result, "PreBuildChecksFailed", <<>>, <<>>)
                   /\ project_path' = b.project_path
                   /\ config' = b.config
                   /\ pc' = b.pc
                   /\ calls' = [locate |-> calls.locate + entry_calls(fs', cwd, start_path).locate,
                                load |-> calls.load + entry_calls(fs', cwd, start_path).load]
       ELSE /\ fs' = fs
            /\ result' = WithContext(
                  Err(IF outcome = "fail" THEN "GeneratorFailed" ELSE "FailedToExecuteGenerator",
                      GeneratorCmd, <<>>),
                  "FailedToGenerate", <<>>, <<>>)
            /\ pc' = "done"
            /\ UNCHANGED <<project_path, config, calls>>
    /\ UNCHANGED <<op, start_path, cwd, task_name, idx, outer, attempt,
                   started, started_cfg, walk_path>>

(***************************************************************************)
(* One call of run_tool by the loop the operation is in.                   *)
(***************************************************************************)
CurrentCommands == commands_at(pc, config, task_name, outer.name)

CurrentCommand == CurrentCommands[idx]

\* run_tool returns before it spawns anything: the command does not parse.
ToolRejects ==
    /\ pc \in ToolSites
    /\ attempt = 0
    /\ ~run_tool_parse(CurrentCommand).ok
    /\ result' = tool_context(run_tool_parse(CurrentCommand), pc, op, CurrentCommand, task_name)
    /\ pc' = "done"
    /\ UNCHANGED <<fs, cfg, edits, op, start_path, cwd, task_name, project_path, config,
                   idx, outer, attempt, log, started, started_cfg, calls,
                   walk_path, running>>

\* run_tool spawns a process and waits for it to exit.
ToolExit(outcome, effect) ==
    /\ pc \in ToolSites
    /\ attempt > 0 \/ run_tool_parse(CurrentCommand).ok
    /\ CanRewrite(project_path, outcome, effect)
    /\ cfg' = rewrite(cfg, project_path, effect)
    /\ edits' = IF effect = "rewrite" THEN edits + 1 ELSE edits
    /\ log' = Append(log, Spawned(pc, idx, CurrentCommand,
                                  dir_at(pc, project_path, outer.project_path), outcome,
                                  effect))
    /\ LET a == run_tool_after(CurrentCommand, attempt, outcome)
           n == next_position(pc, idx, Len(CurrentCommands), config, op, fs,
                              outer.project_path)
       IN  IF a.next = "again" THEN
                /\ attempt' = attempt + 1
                /\ UNCHANGED <<pc, idx, result>>
           ELSE IF a.result.ok THEN
                /\ attempt' = 0
                /\ pc' = n.pc
                /\ idx' = n.idx
                /\ result' = IF n.pc = "done" THEN Ok(NoPath) ELSE result
           ELSE /\ attempt' = 0
                /\ pc' = "done"
                /\ result' = tool_context(a.result, pc, op, CurrentCommand, task_name)
                /\ UNCHANGED idx
    /\ UNCHANGED <<fs, op, start_path, cwd, task_name, project_path, config,
                   outer, started, started_cfg, calls, walk_path>>

\* The process of the tool exits; the next invocation starts afresh.
Exit ==
    /\ pc = "done"
    /\ op' = "none"
    /\ pc' = "idle"
    /\ start_path' = NoPath
    /\ cwd' = NoPath
    /\ task_name' = ""
    /\ project_path' = NoPath
    /\ config' = NoConfig
    /\ idx' = 1
    /\ outer' = NoOuter
    /\ attempt' = 0
    /\ log' = <<>>
    /\ started' = NoFiles
    /\ started_cfg' = NoTexts
    /\ calls' = NoCalls
    /\ walk_path' = NoPath
    /\ running' = <<>>
    /\ result' = Pending
    /\ UNCHANGED <<fs, cfg, edits>>

Next ==
    \/ \E p \in Removable : UserRemove(p)
    \/ \E p \in UserDirs : UserMkdir(p)
    \/ \E t \in UserTexts : UserWriteConfig(t)
    \/ \E p \in InitPaths : InitRun(p)
    \/ \E s \in StartPaths, d \in Cwds : Locate(s, d)
    \/ \E t \in TaskNames, s \in FlowPaths, d \in Cwds : StartRun(t, s, d)
    \/ \E s \in FlowPaths, d \in Cwds : StartCheck(s, d)
    \/ \E s \in FlowPaths, d \in Cwds : StartBuild(s, d)
    \/ \E o \in Outcomes, e \in Effects : GenerateExit(o, e) /\ UNCHANGED running
    \/ ToolRejects
    \/ \E o \in Outcomes, e \in Effects : ToolExit(o, e) /\ UNCHANGED running
    \/ Exit

Spec == Init /\ [][Next]_vars

(***************************************************************************)
(* config::load_config called on its own, over the texts of an ao.toml.    *)
(***************************************************************************)
\* a text says of each table and key whether it is there; an absent key has
\* no value, and a value of the wrong type is the text's only defect
WellFormedText(t) ==
    /\ t.has_name => t.has_project
    /\ t.has_name = (t.name = "p")
    /\ t.has_linters => t.has_check
    /\ t.has_testers => t.has_check
    /\ t.linters # <<>> => t.has_linters
    /\ t.testers # <<>> => t.has_testers
    /\ t.tasks # NoTasks => t.has_tasks
    /\ t.bad_type # "none" => (t.has_project /\ t.has_name)
    /\ t.bad_type = "tasks" => (t.has_tasks /\ t.tasks = NoTasks)
    /\ t.bad_type = "linters" => (t.has_linters /\ t.linters = <<>>)

Texts ==
    {t \in [syntax_ok : {TRUE}, has_project : BOOLEAN, has_name : BOOLEAN,
            name : {"", "p"}, has_check : BOOLEAN,
            has_linters : BOOLEAN, linters : {<<>>, <<RuffCheck>>},
            has_testers : BOOLEAN, testers : {<<>>, <<EchoTester>>},
            has_tasks : BOOLEAN, tasks : {NoTasks, TasksText("p").tasks},
            bad_type : {"none", "tasks", "linters"}] : WellFormedText(t)}
    \cup {MalformedText}

InitLoad ==
    /\ fs = [q \in {FsRoot, Work, Proj, Join(Proj, MarkerName)} |->
                IF q = Join(Proj, MarkerName) THEN "file" ELSE "dir"]
    /\ cfg \in {[q \in {Join(Proj, MarkerName)} |-> t] : t \in Texts}
    /\ edits = 0
    /\ op = "none"
    /\ pc = "idle"
    /\ start_path = NoPath
    /\ cwd = NoPath
    /\ task_name = ""
    /\ project_path = NoPath
    /\ config = NoConfig
    /\ idx = 1
    /\ outer = NoOuter
    /\ attempt = 0
    /\ log = <<>>
    /\ started = NoFiles
    /\ started_cfg = NoTexts
    /\ calls = NoCalls
    /\ walk_path = NoPath
    /\ running = <<>>
    /\ result = Pending

Load(project_root) ==
    /\ Idle
    /\ LET l == load_config(fs, cfg, project_root)
       IN  /\ result' = [ok |-> l.ok, path |-> NoPath, err |-> l.err]
           /\ config' = l.config
    /\ Invocation("load", project_root, Work, "")
    /\ calls' = [locate |-> 0, load |-> 1]
    /\ pc' = "done"
    /\ UNCHANGED <<fs, cfg, edits, project_path, outer>>

NextLoad ==
    \/ \E r \in {Proj, Work} : Load(r)
    \/ Exit

SpecLoad == InitLoad /\ [][NextLoad]_vars

(***************************************************************************)
(* utils::find_project_root, one iteration of its loop at a time.          *)
(***************************************************************************)
\* variant: an iteration takes any entry named ao.toml as the marker
loop_step_any_entry(f, current_path, start) ==
    IF Exists(f, Join(current_path, MarkerName))
        THEN [next |-> "return", result |-> Ok(current_path), current_path |-> current_path]
    ELSE IF HasParent(current_path) /\ Parent(current_path) # current_path
        THEN [next |-> "continue", result |-> Pending,
              current_path |-> Parent(current_path)]
    ELSE [next |-> "return", result |-> Err("RootNotFound", start, <<>>),
          current_path |-> current_path]

\* variant: an iteration that finds no marker stays where it is
loop_step_stays(f, current_path, start) ==
    IF IsFile(f, Join(current_path, MarkerName))
        THEN [next |-> "return", result |-> Ok(current_path), current_path |-> current_path]
    ELSE IF HasParent(current_path)
        THEN [next |-> "continue", result |-> Pending, current_path |-> current_path]
    ELSE [next |-> "return", result |-> Err("RootNotFound", start, <<>>),
          current_path |-> current_path]

\* one iteration: return the current directory, ascend, or break and bail
loop_step(f, current_path, start) ==
    IF IsFile(f, Join(current_path, MarkerName))
        THEN [next |-> "return", result |-> Ok(current_path), current_path |-> current_path]
    ELSE IF HasParent(current_path) /\ Parent(current_path) # current_path
        THEN [next |-> "continue", result |-> Pending,
              current_path |-> Parent(current_path)]
    ELSE [next |-> "return", result |-> Err("RootNotFound", start, <<>>),
          current_path |-> current_path]

\* the directories that may hold an entry named ao.toml
MarkerDirs == {FsRoot, Work, Proj, Nested}

MarkerKinds == {"none", "file", "dir"}

WalkDirs ==
    {FsRoot, Work, Outside, Proj, Nested, Deep, Join(Proj, "api-service"),
     Join(Join(Proj, "api-service"), "tests"), Join(Proj, "model-service")}

\* the tree in which directory d holds the entry ao.toml of kind k[d]
WalkTree(k) ==
    [q \in WalkDirs \cup {Join(d, MarkerName) : d \in {x \in MarkerDirs : k[x] # "none"}} |->
        IF q \in WalkDirs THEN "dir" ELSE k[Parent(q)]]

InitWalk ==
    /\ fs \in {WalkTree(k) : k \in [MarkerDirs -> MarkerKinds]}
    /\ cfg = [q \in {x \in DOMAIN fs : fs[x] = "file"} |-> DefaultText("p")]
    /\ edits = 0
    /\ op = "none"
    /\ pc = "idle"
    /\ start_path = NoPath
    /\ cwd = NoPath
    /\ task_name = ""
    /\ project_path = NoPath
    /\ config = NoConfig
    /\ idx = 1
    /\ outer = NoOuter
    /\ attempt = 0
    /\ log = <<>>
    /\ started = NoFiles
    /\ started_cfg = NoTexts
    /\ calls = NoCalls
    /\ walk_path = NoPath
    /\ running = <<>>
    /\ result = Pending

\* find_project_root canonicalizes its start path and enters the loop
WalkBegin(start, dir) ==
    /\ Idle
    /\ ValidStart(start, dir)
    /\ LET c == canonicalize(fs, dir, start)
       IN  IF c.ok
           THEN /\ walk_path' = c.path
                /\ pc' = "walk"
                /\ result' = Pending
           ELSE /\ walk_path' = NoPath
                /\ pc' = "done"
                /\ result' = WithContext(c, "FailedToCanonicalize", start, <<>>)
    /\ op' = "walk"
    /\ start_path' = start
    /\ cwd' = dir
    /\ started' = fs
    /\ started_cfg' = cfg
    /\ calls' = [locate |-> 1, load |-> 0]
    /\ UNCHANGED <<fs, cfg, edits, task_name, project_path, config, idx, outer,
                   attempt, log, running>>

WalkStep ==
    /\ pc = "walk"
    /\ LET s == loop_step(fs, walk_path, start_path)
       IN  /\ walk_path' = s.current_path
           /\ result' = s.result
           /\ pc' = IF s.next = "return" THEN "done" ELSE "walk"
    /\ UNCHANGED <<fs, cfg, edits, op, start_path, cwd, task_name, project_path,
                   config, idx, outer, attempt, log, started, started_cfg, calls,
                   running>>

NextWalk ==
    \/ \E s \in StartPaths, d \in Cwds : WalkBegin(s, d)
    \/ WalkStep
    \/ Exit

\* the loop is straight-line code of one thread: an iteration that can run, runs
SpecWalk == InitWalk /\ [][NextWalk]_vars /\ WF_vars(WalkStep)

(***************************************************************************)
(* Properties.                                                             *)
(***************************************************************************)
Done == pc = "done"

\* the canonical form of the path the operation was started on
Canon == canonicalize(fs, cwd, start_path)

Marker(d) == Join(d, MarkerName)

\* the root of the tree the operation was started on
StartRoot == find_project_root(started, cwd, start_path)

\* the ao.toml of that root as the operation found it
TextAtStart == started_cfg[Marker(StartRoot.path)]

\* the ao.toml as check::run finds it when build calls it: the generator may
\* have rewritten it
TextAtCheck ==
    IF op = "build" /\ log # <<>> /\ log[1].effect = "rewrite" THEN RewrittenText
    ELSE TextAtStart

\* the log entries are those of the loops that go through run_tool
ToolEntries == {k \in 1..Len(log) : log[k].site \in ToolSites}

SameCall(k, m) == log[k].site = log[m].site /\ log[k].idx = log[m].idx

\* C1: there are no retries: no command of an invocation is spawned twice,
\* so a command that exited with a non-zero status is not executed again.
C1_NoRetries ==
    \A k, m \in 1..Len(log) : SameCall(k, m) => k = m

\* C2: run is fail-fast: once a command of the task has failed, every
\* command declared before it has been run, no command declared after it is
\* spawned, and run returns a failure.
C2_FailFast ==
    op = "run" =>
        \A k \in 1..Len(log) : log[k].status # "ok" =>
            /\ \A j \in 1..(log[k].idx - 1) : \E m \in 1..Len(log) : log[m].idx = j
            /\ \A m \in 1..Len(log) : log[m].idx <= log[k].idx
            /\ Done => ~result.ok

\* the command list of the task as the ao.toml of the project declares it
Declared == started_cfg[Marker(project_path)].tasks[task_name]

\* C3: run spawns the commands of the task in the order ao.toml declares
\* them, each one only after every earlier one has exited with status zero,
\* and when all have succeeded every command has been run and run returns Ok.
C3_DeclaredOrder ==
    op = "run" =>
        /\ \A k \in 1..Len(log) :
              /\ log[k].site = "task"
              /\ log[k].cmd = Declared[log[k].idx]
              /\ \A j \in 1..(log[k].idx - 1) :
                    \E m \in 1..(k - 1) : log[m].idx = j /\ log[m].status = "ok"
        /\ \A k, m \in 1..Len(log) : k < m => log[k].idx <= log[m].idx
        /\ (Done /\ result.ok /\ project_path # NoPath) =>
              \A i \in 1..Len(Declared) :
                  \E k \in 1..Len(log) : log[k].idx = i /\ log[k].status = "ok"
        /\ (/\ Done /\ project_path # NoPath
            /\ task_name \in DOMAIN started_cfg[Marker(project_path)].tasks
            /\ \A i \in 1..Len(Declared) :
                  \E k \in 1..Len(log) : log[k].idx = i /\ log[k].status = "ok")
           => result.ok

C3_Witness ==
    /\ op = "run" /\ Done /\ result.ok
    /\ Len(Declared) = 3
    /\ \A i \in 1..3 : \E k \in 1..Len(log) : log[k].idx = i /\ log[k].status = "ok"

\* the call of run_tool that spawned log entry k has returned
Returned(k) == Done \/ pc # log[k].site \/ idx # log[k].idx

\* C4: the result of run_tool follows the exit status: a call whose process
\* exited with a non-zero status returns a failure (which ends the
\* operation), and a call returns Ok only after a process that exited zero.
C4_ResultFollowsStatus ==
    \A k \in ToolEntries :
        (log[k].status = "fail" /\ Returned(k)) =>
            /\ Done /\ ~result.ok
            /\ \A m \in ToolEntries : SameCall(k, m) => log[m].status # "ok"

\* the directories that directly hold a regular file named ao.toml
ProjectRoots == {d \in DOMAIN fs : IsFile(fs, Marker(d))}

Located == op = "locate" /\ Done /\ Canon.ok

\* C5 as stated: from every existing start path inside the tree of a project
\* root, find_project_root returns what it returns on that root.
C5_SameRootEverywhere ==
    Located =>
        \A r \in ProjectRoots :
            IsPrefix(r, Canon.path) => result = find_project_root(fs, Work, r)

\* no directory below r on the way down to p is a project root itself
NoRootBetween(r, p) ==
    \A d \in Prefixes(p) : (IsPrefix(r, d) /\ d # r) => d \notin ProjectRoots

\* C5 amended: from every existing start path inside the tree of a project
\* root r, with no directory between r and the start path holding an ao.toml
\* of its own, find_project_root returns r, as it does when called on r.
C5_SameRootUnlessNested ==
    Located =>
        \A r \in ProjectRoots :
            (IsPrefix(r, Canon.path) /\ NoRootBetween(r, Canon.path)) =>
                /\ result = Ok(r)
                /\ result = find_project_root(fs, Work, r)

C5_Witness ==
    /\ Located
    /\ Canon.path = Deep
    /\ Proj \in ProjectRoots
    /\ result = Ok(Proj)

\* C6: find_project_root fails with the root-not-found error when no
\* directory from the canonical start path up to the filesystem root holds a
\* regular file ao.toml, and a directory it returns always holds one.
C6_RootNotFound ==
    Located =>
        /\ (\A d \in Prefixes(Canon.path) : d \notin ProjectRoots) =>
              (~result.ok /\ result.err[1].kind = "RootNotFound")
        /\ result.ok => result.path \in ProjectRoots

C6_Witness ==
    /\ Located
    /\ Canon.path = Outside
    /\ ~result.ok /\ result.err[1].kind = "RootNotFound"

\* every required directory and every required file is in place under root
StructureInPlace(root) ==
    /\ \A i \in 1..Len(required_dirs) : IsDir(fs, Join(root, required_dirs[i]))
    /\ \A i \in 1..Len(required_files) :
          IsFile(fs, Join(Join(root, required_files[i][1]), required_files[i][2]))

CheckEntries == {k \in 1..Len(log) : log[k].site \in {"linters", "testers"}}

\* C7: no linter and no tester is spawned unless every required directory
\* and every required file has been found.
C7_ValidationGatesTools ==
    CheckEntries # {} => StructureInPlace(project_path)

C7_Witness ==
    /\ op = "check"
    /\ \E k \in CheckEntries : log[k].site = "linters"
    /\ \E k \in CheckEntries : log[k].site = "testers"

\* C8: in check the linters run in declared order, then the testers in
\* declared order; after a linter or tester has failed no other command is
\* spawned and check fails; check returns Ok only if all of them succeeded.
C8_LintersThenTesters ==
    op = "check" =>
        /\ \A k, m \in 1..Len(log) : k < m =>
              \/ log[k].site = "linters" /\ log[m].site = "testers"
              \/ log[k].site = log[m].site /\ log[k].idx <= log[m].idx
        /\ \A k, m \in 1..Len(log) :
              (k < m /\ log[k].status # "ok") => SameCall(k, m)
        /\ \A k \in 1..Len(log) : (log[k].status # "ok" /\ Done) => ~result.ok
        /\ (Done /\ result.ok) =>
              \A k \in 1..Len(log) : log[k].status = "ok"

\* the tree and the ao.toml that init leaves on a fresh path
Scaffold == init_run([q \in {FsRoot, Work, Outside} |-> "dir"], [q \in {} |-> MalformedText], Proj)

\* C9: check started at the root of a project that init has just scaffolded
\* returns Ok, with the default ao.toml, and with a [check] section added
\* whose commands all succeed.
C9_CheckAfterInit ==
    (/\ op = "check" /\ Done
     /\ start_path = Proj
     /\ fs = Scaffold.fs
     /\ started_cfg[Marker(Proj)] \in {DefaultText("p"), CheckText("p")}
     /\ \A k \in 1..Len(log) : log[k].status = "ok")
    => result.ok

\* check has found its root and loaded its configuration
Validating ==
    /\ op = "check" /\ Done
    /\ find_project_root(fs, cwd, start_path).ok
    /\ load_config(fs, started_cfg, find_project_root(fs, cwd, start_path).path).ok

\* C10: when a required directory is missing, check fails with the error
\* that names the first missing one in the fixed order, whatever required
\* file is missing as well.
C10_FirstMissingDirectory ==
    Validating =>
        LET root == find_project_root(fs, cwd, start_path).path
        IN  \A i \in 1..Len(required_dirs) :
                (/\ ~Exists(fs, Join(root, required_dirs[i]))
                 /\ \A j \in 1..(i - 1) : IsDir(fs, Join(root, required_dirs[j])))
                => result = Err("RequiredDirectoryNotFound",
                                Join(root, required_dirs[i]), <<required_dirs[i]>>)

C10_Witness ==
    /\ Validating
    /\ ~Exists(fs, Join(Proj, "model-service"))
    /\ \A i \in 1..Len(required_files) :
          required_files[i][1] # "model-service" =>
              IsFile(fs, Join(Join(Proj, required_files[i][1]), required_files[i][2]))
    /\ result = Err("RequiredDirectoryNotFound", Join(Proj, "model-service"),
                    <<"model-service">>)

RequiredFile(i) == Join(Join(Proj, required_files[i][1]), required_files[i][2])

\* C11: removing one required file from the tree init has scaffolded makes
\* check fail with the 'Required file' error that names the removed file and
\* the subdirectory it was in.
C11_RemovedFileNamed ==
    \A i \in 1..Len(required_files) :
        (/\ op = "check" /\ Done
         /\ start_path = Proj
         /\ IsFile(Scaffold.fs, RequiredFile(i))
         /\ started = remove_all(Scaffold.fs, RequiredFile(i))
         /\ started_cfg[Marker(Proj)] = DefaultText("p"))
        => result = Err("RequiredFileNotFound",
                        <<required_files[i][2]>>, <<required_files[i][1]>>)

\* run has found its root and loaded its configuration, and has returned
Ran ==
    /\ op = "run" /\ Done
    /\ find_project_root(fs, cwd, start_path).ok
    /\ load_config(fs, started_cfg, find_project_root(fs, cwd, start_path).path).ok

\* the [tasks] table of the ao.toml that run has loaded
DeclaredTasks == started_cfg[Marker(find_project_root(fs, cwd, start_path).path)].tasks

\* C12: a task name that ao.toml declares with an empty command list is a
\* found task: run returns Ok and spawns no process at all.
C12_EmptyTaskSucceeds ==
    (/\ Ran
     /\ task_name \in DOMAIN DeclaredTasks
     /\ DeclaredTasks[task_name] = <<>>)
    => (result.ok /\ log = <<>>)

C12_Witness ==
    /\ Ran
    /\ task_name = "empty"
    /\ "empty" \in DOMAIN DeclaredTasks
    /\ result.ok /\ log = <<>>

\* C13: run with a task name that is not a key of the [tasks] table fails
\* with the task-not-found error that carries the requested name, and spawns
\* no command of any task.
C13_UnknownTaskFails ==
    op = "run" =>
        /\ (Ran /\ task_name \notin DOMAIN DeclaredTasks) =>
              (result = Err("TaskNotFound", <<task_name>>, <<>>) /\ log = <<>>)
        /\ (/\ find_project_root(fs, cwd, start_path).ok
            /\ load_config(fs, started_cfg, find_project_root(fs, cwd, start_path).path).ok
            /\ task_name \notin DOMAIN DeclaredTasks) => log = <<>>

C13_Witness ==
    /\ Ran
    /\ task_name = "deploy"
    /\ "build" \in DOMAIN DeclaredTasks
    /\ result = Err("TaskNotFound", <<"deploy">>, <<>>)
    /\ log = <<>>

\* the errors run_tool itself can return
ExecutorErrors == {"FailedToParseCommand", "NoExecutableParts", "FailedToExecute", "ToolFailed"}

DockerEntries == {k \in 1..Len(log) : log[k].site \in {"docker_api", "docker_model"}}

\* the call at index i of a loop has spawned a process that exited with
\* status zero before log entry k
SucceededBefore(at, i, k) ==
    \E m \in 1..(k - 1) : log[m].site = at /\ log[m].idx = i /\ log[m].status = "ok"

\* C15: build is strictly ordered: the generator is the first process and
\* has exited with status zero before validation, linters or testers start;
\* docker is spawned only after the generator succeeded, every required
\* directory and file (the generated stubs included) was found, and every
\* declared linter and tester has succeeded.
C15_BuildOrder ==
    op = "build" =>
        /\ \A k \in 1..Len(log) : (log[k].site = "generate") = (k = 1)
        /\ \A k \in CheckEntries \cup DockerEntries :
              /\ log[1].status = "ok"
              /\ StructureInPlace(project_path)
        /\ \A k \in DockerEntries :
              /\ \A m \in CheckEntries : m < k
              /\ \A i \in 1..Len(TextAtCheck.linters) :
                    SucceededBefore("linters", i, k)
              /\ \A i \in 1..Len(TextAtCheck.testers) :
                    SucceededBefore("testers", i, k)

C15_Witness ==
    /\ op = "build"
    /\ log # <<>> /\ log[1].site = "generate"
    /\ \E k \in DockerEntries :
          /\ SucceededBefore("linters", 2, k)
          /\ SucceededBefore("testers", 1, k)

\* build has found its root and loaded its configuration on the tree it was
\* started on
Building ==
    /\ op = "build"
    /\ find_project_root(started, cwd, start_path).ok
    /\ load_config(started, started_cfg, find_project_root(started, cwd, start_path).path).ok

ProtoFile(root) == Join(Join(root, "model-interface"), "anops.proto")

GenerationFailed ==
    /\ Done /\ ~result.ok
    /\ result.err[1].kind = "FailedToGenerate"

\* C16: when code generation fails in build (the proto file is missing, the
\* generator cannot be launched, or it exits non-zero) build fails with the
\* generation error and spawns nothing afterwards: no linter, no tester and
\* no docker build.
C16_GenerationFailureStopsBuild ==
    /\ (Building /\ ~Exists(started, ProtoFile(find_project_root(started, cwd, start_path).path)))
          => (GenerationFailed /\ log = <<>>)
    /\ (op = "build" /\ log # <<>> /\ log[1].status # "ok")
          => (GenerationFailed /\ Len(log) = 1)

C16_Witness ==
    /\ Building
    /\ IsFile(started, Join(Join(Proj, "api-service"), "Dockerfile"))
    /\ ~Exists(started, ProtoFile(Proj))
    /\ result.err = <<Layer("FailedToGenerate", <<>>, <<>>),
                      Layer("ProtoFileNotFound", ProtoFile(Proj), <<>>)>>
    /\ log = <<>>

\* the other case of C16: the generator was spawned and exited non-zero
C16_GeneratorExitWitness ==
    /\ op = "build" /\ Len(log) = 1
    /\ log[1].status = "fail"
    /\ GenerationFailed

\* everything check requires of the project at Proj, apart from service s
\* and from the stubs the generator writes, was on the tree build started on
InPlaceApartFrom(s) ==
    /\ \A i \in 1..Len(required_dirs) :
          required_dirs[i] # s => IsDir(started, Join(Proj, required_dirs[i]))
    /\ \A i \in 1..Len(required_files) :
          (required_files[i][1] # s /\ RequiredFile(i) \notin stub_files(Proj))
              => IsFile(started, RequiredFile(i))

\* C17: build skips a service whose directory is absent: started on a
\* project where api-service or model-service does not exist and all else is
\* in place, build whose processes all exit with status zero returns Ok, and
\* spawns no docker build for the absent service.
C17_AbsentServiceSkipped ==
    \A s \in {"api-service", "model-service"} :
        (/\ Building /\ Done
         /\ find_project_root(started, cwd, start_path).path = Proj
         /\ ~Exists(started, Join(Proj, s))
         /\ InPlaceApartFrom(s)
         /\ \A k \in 1..Len(log) : log[k].status = "ok")
        => /\ result.ok
           /\ \A k \in DockerEntries : log[k].dir # Join(Proj, s)

\* a command string whose double quotes do not pair up
Unbalanced(cmd) == Cardinality({i \in 1..Len(cmd) : cmd[i] = DQ}) % 2 = 1

\* a command string that holds nothing but blanks, the empty string included
NoTokens(cmd) == \A i \in 1..Len(cmd) : cmd[i] = SP

Unparsable(cmd) == Unbalanced(cmd) \/ NoTokens(cmd)

ParseError(cmd) ==
    Layer(IF Unbalanced(cmd) THEN "FailedToParseCommand" ELSE "NoExecutableParts", cmd, <<>>)

\* C18: run_tool rejects an unparsable command before spawning anything: no
\* process is ever spawned for a command string with unbalanced quotes or
\* with no token in it, and the run whose commands have succeeded up to such
\* a command fails with the parse error for that command.
C18_UnparsableNeverSpawned ==
    /\ \A k \in ToolEntries : ~Unparsable(log[k].cmd)
    /\ (Ran /\ task_name \in DOMAIN DeclaredTasks) =>
          \A j \in 1..Len(DeclaredTasks[task_name]) :
              (/\ Unparsable(DeclaredTasks[task_name][j])
               /\ \A i \in 1..(j - 1) :
                     \E k \in 1..Len(log) : log[k].idx = i /\ log[k].status = "ok")
              => /\ result.err = <<Layer("CommandFailed", DeclaredTasks[task_name][j],
                                         <<task_name>>),
                                   ParseError(DeclaredTasks[task_name][j])>>
                 /\ \A k \in 1..Len(log) : log[k].idx < j

C18_Witness ==
    /\ Ran /\ task_name = "quoted"
    /\ Len(log) = 1 /\ log[1].cmd = EchoQuoted /\ log[1].status = "ok"
    /\ Len(result.err) = 2
    /\ result.err[2] = Layer("FailedToParseCommand", EchoUnbalanced, <<>>)

\* the other cases of C18: the empty string, and blanks only
C18_EmptyWitness ==
    /\ Ran /\ task_name = "blank"
    /\ log = <<>>
    /\ Len(result.err) = 2
    /\ result.err[2] = Layer("NoExecutableParts", EmptyCmd, <<>>)

C18_SpacesWitness ==
    /\ Ran /\ task_name = "spaces"
    /\ log = <<>>
    /\ Len(result.err) = 2
    /\ result.err[2] = Layer("NoExecutableParts", Spaces, <<>>)

\* load_config has returned from loading the ao.toml of Proj
Loaded == op = "load" /\ Done /\ start_path = Proj

LoadedText == cfg[Marker(Proj)]

\* C19: load_config succeeds only if the [project] table and project.name
\* are present; when they are (and the file is otherwise well-formed) it
\* succeeds, and an absent [check] table, absent linters, absent testers
\* and an absent [tasks] table each load as an empty collection; when
\* [project] or project.name is absent the load fails.
C19_Defaulting ==
    Loaded =>
        /\ result.ok => (LoadedText.has_project /\ LoadedText.has_name)
        /\ (~LoadedText.has_project \/ ~LoadedText.has_name) =>
              (~result.ok /\ config = NoConfig)
        /\ (/\ LoadedText.syntax_ok /\ LoadedText.bad_type = "none"
            /\ LoadedText.has_project /\ LoadedText.has_name)
           => /\ result.ok
              /\ config.name = LoadedText.name
              /\ ~LoadedText.has_check => (config.linters = <<>> /\ config.testers = <<>>)
              /\ ~LoadedText.has_linters => config.linters = <<>>
              /\ ~LoadedText.has_testers => config.testers = <<>>
              /\ ~LoadedText.has_tasks => config.tasks = NoTasks
              /\ LoadedText.has_linters => config.linters = LoadedText.linters
              /\ LoadedText.has_testers => config.testers = LoadedText.testers
              /\ LoadedText.has_tasks => config.tasks = LoadedText.tasks

C19_Witness ==
    /\ Loaded
    /\ LoadedText = BaseText("p")
    /\ result.ok
    /\ config = [name |-> "p", linters |-> <<>>, testers |-> <<>>, tasks |-> NoTasks]

\* the failing case of C19: a [project] table without a name
C19_MissingNameWitness ==
    /\ Loaded
    /\ LoadedText.has_project /\ ~LoadedText.has_name /\ LoadedText.has_tasks
    /\ ~result.ok

\* C20: when load_config fails to parse the configuration, the message of
\* its error is the parser's diagnostic: 'missing field' with the field name
\* when the project table or project.name is absent, 'invalid type' when
\* the command list of a task or check.linters has the wrong type.
C20_MessageHoldsDiagnostic ==
    (Loaded /\ ~result.ok /\ LoadedText.syntax_ok) =>
        /\ ~LoadedText.has_project =>
              Message(result) = Layer("MissingField", <<"project">>, <<>>)
        /\ (LoadedText.has_project /\ ~LoadedText.has_name) =>
              Message(result) = Layer("MissingField", <<"name">>, <<>>)
        /\ LoadedText.bad_type # "none" =>
              Message(result) = Layer("InvalidType", <<LoadedText.bad_type>>, <<>>)

Initialized == op = "init" /\ Done /\ result.ok

\* the directories a project scaffolded at root holds
ScaffoldDirs(root) ==
    {root, Join(root, "api-service"), Join(root, "model-service"),
     Join(root, "model-interface"),
     Join(Join(root, "api-service"), "tests"), Join(Join(root, "model-service"), "tests")}

\* the files a project scaffolded at root holds
ScaffoldFiles(root) ==
    {Marker(root), Join(root, ".gitignore"), Join(root, "README.md")}
    \cup {Join(Join(root, d), n) :
            d \in {"api-service", "model-service"},
            n \in {"Dockerfile", "requirements.txt", "README.md"}}
    \cup {Join(Join(root, "api-service"), "main.py"),
          Join(Join(root, "model-service"), "server.py"),
          Join(Join(Join(root, "api-service"), "tests"), "test_main.py"),
          Join(Join(Join(root, "model-service"), "tests"), "test_server.py"),
          Join(Join(root, "model-interface"), "README.md"),
          Join(Join(root, "model-interface"), "anops.proto")}

Reinit == op = "init" /\ Done /\ IsFile(started, Marker(start_path))

\* C22: init on a directory that already holds a project succeeds and
\* overwrites what it writes: ao.toml is the default text again, whatever
\* the user had put in its check and tasks entries; every path init does not
\* write is as it was, and so is every other ao.toml; and running init once
\* more on the tree init has left changes nothing.
C22_ReinitOverwrites ==
    /\ Reinit =>
          /\ result.ok
          /\ cfg[Marker(start_path)] = DefaultText(start_path[Len(start_path)])
          /\ DOMAIN fs = DOMAIN started \cup ScaffoldDirs(start_path)
                                        \cup ScaffoldFiles(start_path)
          /\ \A q \in DOMAIN started \ ScaffoldFiles(start_path) : fs[q] = started[q]
          /\ \A q \in DOMAIN started_cfg \ {Marker(start_path)} :
                q \in DOMAIN cfg /\ cfg[q] = started_cfg[q]
    /\ Initialized =>
          init_run(fs, cfg, start_path) = [result |-> Ok(start_path), fs |-> fs, cfg |-> cfg]

C22_Witness ==
    /\ Reinit /\ result.ok
    /\ start_path = Proj
    /\ started_cfg[Marker(Proj)] = TasksText("p")
    /\ cfg[Marker(Proj)] = DefaultText("p")
    /\ ~Exists(started, Join(Join(Proj, "api-service"), "Dockerfile"))
    /\ IsFile(fs, Join(Join(Proj, "api-service"), "Dockerfile"))

Walking == pc = "walk"

\* C23: find_project_root terminates on every start path: an iteration of
\* its loop returns the current directory, fails, or replaces the current
\* path by its strict parent; a walk that has begun always ends, and it ends
\* with the result of find_project_root.
C23_WalkTerminates ==
    /\ [][Walking =>
            \/ /\ pc' = "done"
               /\ walk_path' = walk_path
               /\ result'.ok => result' = Ok(walk_path)
            \/ /\ Walking'
               /\ Len(walk_path') = Len(walk_path) - 1
               /\ IsPrefix(walk_path', walk_path)]_vars
    /\ Walking ~> Done
    /\ []((op = "walk" /\ Done) => result = find_project_root(fs, cwd, start_path))

C23_Witness ==
    /\ op = "walk" /\ Done
    /\ Canon = Ok(Deep)
    /\ walk_path = FsRoot
    /\ result = Err("RootNotFound", start_path, <<>>)

Flows == {"run", "check", "build"}

\* every process was handed the root, or the service directory of its image
StepsReceive(root) ==
    \A k \in 1..Len(log) :
        log[k].dir = IF log[k].site = "docker_api" THEN Join(root, "api-service")
                     ELSE IF log[k].site = "docker_model" THEN Join(root, "model-service")
                     ELSE root

\* C24 as stated: in each of run, check and build find_project_root is called
\* once and load_config once, and every step receives that root.
C24_LocatedOnce ==
    op \in Flows =>
        /\ calls.locate = 1
        /\ calls.load = IF StartRoot.ok THEN 1 ELSE 0
        /\ StepsReceive(StartRoot.path)

\* build has gone past code generation and has called check::run
CheckCalled == op = "build" /\ log # <<>> /\ log[1].status = "ok"

\* C24 amended: run and check call find_project_root once and load_config
\* once; build calls them once itself and once more through check::run after
\* code generation, on the same start path; both calls give the same root,
\* and every step of the invocation receives that root.
C24_LocatedOncePerEntry ==
    op \in Flows =>
        /\ calls.locate = IF CheckCalled THEN 2 ELSE 1
        /\ calls.load = IF ~StartRoot.ok THEN 0 ELSE IF CheckCalled THEN 2 ELSE 1
        /\ (CheckCalled /\ project_path # NoPath) =>
              (project_path = outer.project_path /\ project_path = StartRoot.path)
        /\ StepsReceive(StartRoot.path)

C24_Witness ==
    /\ op = "build"
    /\ calls = [locate |-> 2, load |-> 2]
    /\ project_path = Proj /\ outer.project_path = Proj
    /\ \E k \in 1..Len(log) :
          log[k].site = "docker_model" /\ log[k].dir = Join(Proj, "model-service")

\* log entry k is the command at its index of the list, under the text t
FromText(k, t) ==
    LET e == log[k]
    IN  IF e.site = "task"
            THEN /\ task_name \in DOMAIN t.tasks
                 /\ e.idx <= Len(t.tasks[task_name])
                 /\ e.cmd = t.tasks[task_name][e.idx]
        ELSE IF e.site = "linters"
            THEN e.idx <= Len(t.linters) /\ e.cmd = t.linters[e.idx]
        ELSE IF e.site = "testers"
            THEN e.idx <= Len(t.testers) /\ e.cmd = t.testers[e.idx]
        ELSE TRUE

\* the image builds are tagged with the name of the text t
TaggedFrom(t) ==
    \A k \in DockerEntries :
        log[k].cmd = <<"docker", SP, "build", SP, "-t", SP, t.name, "-",
                       IF log[k].site = "docker_api" THEN "api-service" ELSE "model-service",
                       ":latest", SP, ".">>

\* every linter and tester of the text t has exited with status zero
AllChecksOf(t) ==
    /\ \A i \in 1..Len(t.linters) : SucceededBefore("linters", i, Len(log) + 1)
    /\ \A i \in 1..Len(t.testers) : SucceededBefore("testers", i, Len(log) + 1)

Rewrote == \E k \in 1..Len(log) : log[k].effect = "rewrite"

\* the operation itself has written no ao.toml: the texts are as it found
\* them, but for what the processes it spawned have rewritten
NeverWritten ==
    cfg = IF Rewrote THEN [started_cfg EXCEPT ![Marker(StartRoot.path)] = RewrittenText]
          ELSE started_cfg

\* C25 as stated: the configuration loaded when the invocation starts decides
\* every task command, linter and tester executed and the name in the image
\* tags, whatever a spawned process does to ao.toml meanwhile; and run, check
\* and build never write ao.toml themselves.
C25_SnapshotAtStart ==
    (op \in Flows /\ StartRoot.ok) =>
        /\ \A k \in 1..Len(log) : FromText(k, TextAtStart)
        /\ TaggedFrom(TextAtStart)
        /\ (op \in {"check", "build"} /\ Done /\ result.ok) => AllChecksOf(TextAtStart)
        /\ NeverWritten

\* C25 amended: in run and check the text of ao.toml found at the start
\* decides every command executed; in build it decides the name in the image
\* tags, while the linters and testers are those of the text as it is when
\* the generator has exited and check loads it again; what a process does to
\* ao.toml after the load that concerns it changes nothing, and run, check
\* and build never write ao.toml themselves.
C25_SnapshotAtLoad ==
    (op \in Flows /\ StartRoot.ok) =>
        /\ \A k \in 1..Len(log) : FromText(k, TextAtCheck)
        /\ TaggedFrom(TextAtStart)
        /\ (op \in {"check", "build"} /\ Done /\ result.ok) => AllChecksOf(TextAtCheck)
        /\ NeverWritten

C25_Witness ==
    /\ op = "build" /\ Done /\ result.ok
    /\ TextAtStart = CheckText("p")
    /\ log[1].effect = "rewrite"
    /\ cfg[Marker(Proj)] = RewrittenText
    /\ \E k \in CheckEntries : log[k].cmd = EchoHello
    /\ \E k \in DockerEntries : log[k].cmd = docker_cmd("p", "api-service")

\* the case of run: the first command of the task rewrites ao.toml, the
\* later ones are still those of the text run has loaded
C25_RunWitness ==
    /\ op = "run" /\ Done /\ result.ok
    /\ task_name = "build"
    /\ log[1].effect = "rewrite"
    /\ \E k \in 1..Len(log) : log[k].cmd = EchoHello /\ log[k].idx = 3

\* the canonical form of the start path on the tree the operation found
CanonAtStart == canonicalize(started, cwd, start_path)

\* the deepest directory on the way down to p that holds a regular ao.toml
NearestRoot(f, p) ==
    CHOOSE r \in Prefixes(p) :
        /\ IsFile(f, Marker(r))
        /\ \A d \in Prefixes(p) : IsFile(f, Marker(d)) => Len(d) <= Len(r)

\* C26: every process run, check or build spawns has the resolved project
\* root as its working directory, a docker build the service subdirectory of
\* that root, whatever the start path and the current directory of the tool.
C26_WorkingDirectory ==
    (op \in Flows /\ log # <<>>) =>
        /\ CanonAtStart.ok
        /\ \E r \in Prefixes(CanonAtStart.path) : IsFile(started, Marker(r))
        /\ \A k \in 1..Len(log) :
              LET root == NearestRoot(started, CanonAtStart.path)
              IN  log[k].dir =
                      IF log[k].site = "docker_api" THEN Join(root, "api-service")
                      ELSE IF log[k].site = "docker_model" THEN Join(root, "model-service")
                      ELSE root

C26_Witness ==
    /\ op = "run"
    /\ cwd = Join(Proj, "model-service")
    /\ start_path = <<".">>
    /\ log # <<>>
    /\ log[1].dir = Proj

(***************************************************************************)
(* run, check and build with the spawn of a child process and its exit as  *)
(* separate steps, on a scaffolded project that holds the generated stubs. *)
(***************************************************************************)
\* variant: the child is spawned and the tool goes on without waiting for it
blocks_never(at) == FALSE

\* std::process::Command::status: the caller is blocked until the child exits
blocks(at) == TRUE

Child(at, i, awaited) == [site |-> at, idx |-> i, awaited |-> awaited]

\* the tool is blocked in a call of status()
Awaiting == running # <<>> /\ running[Len(running)].awaited

\* control is at a call of status()
AtSpawn ==
    \/ pc = "generate"
    \/ pc \in ToolSites /\ (attempt > 0 \/ run_tool_parse(CurrentCommand).ok)

InitProc ==
    /\ fs = generated(Scaffold.fs, Proj)
    /\ cfg \in {[q \in {Marker(Proj)} |-> t] : t \in {CheckText("p"), TasksText("p")}}
    /\ edits = 0
    /\ op = "none"
    /\ pc = "idle"
    /\ start_path = NoPath
    /\ cwd = NoPath
    /\ task_name = ""
    /\ project_path = NoPath
    /\ config = NoConfig
    /\ idx = 1
    /\ outer = NoOuter
    /\ attempt = 0
    /\ log = <<>>
    /\ started = NoFiles
    /\ started_cfg = NoTexts
    /\ calls = NoCalls
    /\ walk_path = NoPath
    /\ running = <<>>
    /\ result = Pending

\* status() spawns the child
ProcSpawn ==
    /\ AtSpawn
    /\ ~Awaiting
    /\ running' = Append(running, Child(pc, idx, blocks(pc)))
    /\ IF blocks(pc)
       THEN UNCHANGED <<fs, cfg, edits, op, pc, start_path, cwd, task_name, project_path,
                        config, idx, outer, attempt, log, started, started_cfg, calls,
                        walk_path, result>>
       ELSE IF pc = "generate" THEN GenerateExit("ok", "none")
       ELSE ToolExit("ok", "none")

\* a child exits; the call of status() that waits for it returns
ProcExit(outcome) ==
    /\ running # <<>>
    /\ running' = Tail(running)
    /\ IF Head(running).awaited
       THEN IF pc = "generate" THEN GenerateExit(outcome, "none")
            ELSE ToolExit(outcome, "none")
       ELSE UNCHANGED <<fs, cfg, edits, op, pc, start_path, cwd, task_name, project_path,
                        config, idx, outer, attempt, log, started, started_cfg, calls,
                        walk_path, result>>

NextProc ==
    \/ \E t \in TaskNames, s \in FlowPaths, d \in Cwds : StartRun(t, s, d)
    \/ \E s \in FlowPaths, d \in Cwds : StartCheck(s, d)
    \/ \E s \in FlowPaths, d \in Cwds : StartBuild(s, d)
    \/ ProcSpawn
    \/ \E o \in Outcomes : ProcExit(o)
    \/ ToolRejects
    \/ Exit

SpecProc == InitProc /\ [][NextProc]_vars

\* C27: execution is strictly sequential: at any moment at most one child
\* process of the tool is running, and while it runs the tool is waiting in
\* the call that spawned it; every earlier child has exited.
C27_OneChildAtATime ==
    /\ Len(running) <= 1
    /\ running # <<>> =>
          /\ running[1].awaited
          /\ pc = running[1].site /\ idx = running[1].idx
          /\ \A k \in 1..Len(log) :
                \/ log[k].site = "generate"
                \/ log[k].site # pc
                \/ log[k].idx <= idx

C27_Witness ==
    /\ op = "build"
    /\ Len(running) = 1
    /\ running[1].site = "docker_model"
    /\ \E k \in 1..Len(log) : log[k].site = "docker_api" /\ log[k].status = "ok"
    /\ \E k \in 1..Len(log) : log[k].site = "testers" /\ log[k].status = "ok"

\* the directories between the canonical start path and d, d left out
Below(d) == {x \in Prefixes(Canon.path) : Len(x) > Len(d)}

\* C28: find_project_root returns the nearest enclosing project: the first
\* directory, going up from the canonical start path, that holds a regular
\* file ao.toml. No directory the walk has passed holds one, a start path
\* inside an inner project resolves to the inner root, and a directory named
\* ao.toml is not a marker.
C28_NearestEnclosing ==
    (op = "walk" /\ Canon.ok) =>
        /\ Walking =>
              /\ walk_path \in Prefixes(Canon.path)
              /\ \A d \in Below(walk_path) : ~IsFile(fs, Marker(d))
        /\ (Done /\ result.ok) =>
              /\ result.path \in Prefixes(Canon.path)
              /\ fs[Marker(result.path)] = "file"
              /\ \A d \in Below(result.path) : ~IsFile(fs, Marker(d))
        /\ (Done /\ IsFile(fs, Marker(Nested)) /\ IsPrefix(Nested, Canon.path)) =>
              result = Ok(Nested)
        /\ (Done /\ ~result.ok) =>
              \A d \in Prefixes(Canon.path) : ~IsFile(fs, Marker(d))

C28_Witness ==
    /\ op = "walk" /\ Done
    /\ Canon = Ok(Deep)
    /\ IsFile(fs, Marker(Proj))
    /\ IsFile(fs, Marker(Nested))
    /\ result = Ok(Nested)

\* a directory named ao.toml in the inner directory is passed over
C28_DirectoryWitness ==
    /\ op = "walk" /\ Done
    /\ Canon = Ok(Deep)
    /\ IsDir(fs, Marker(Nested))
    /\ IsFile(fs, Marker(Proj))
    /\ result = Ok(Proj)

\* the configuration load on the tree the operation was started on
LoadAtStart == load_config(started, started_cfg, StartRoot.path)

FailedAtStart == op \in Flows /\ (~StartRoot.ok \/ ~LoadAtStart.ok)

\* C29: when run, check or build is started on a tree where the project
\* root cannot be resolved or the configuration cannot be loaded (the start
\* path does not exist, no directory above it holds an ao.toml, or the
\* ao.toml is malformed), the operation returns a failure that names the
\* failed step, no process is spawned and nothing is written.
C29_FailedStartSpawnsNothing ==
    FailedAtStart =>
        /\ Done /\ ~result.ok
        /\ result.err[1].kind =
              IF StartRoot.ok THEN "FailedToLoadConfig" ELSE "FailedToFindProjectRoot"
        /\ log = <<>>
        /\ running = <<>>
        /\ fs = started

C29_Witness ==
    /\ op = "build" /\ Done
    /\ StartRoot = Ok(Proj)
    /\ started_cfg[Marker(Proj)] = MalformedText
    /\ IsFile(started, Join(Join(Proj, "model-interface"), "anops.proto"))
    /\ result.err[1].kind = "FailedToLoadConfig"
    /\ log = <<>>

\* the start path does not exist
C29_MissingStartWitness ==
    /\ op = "check" /\ Done
    /\ start_path = <<"w", "missing">>
    /\ Len(result.err) = 3
    /\ result.err[2].kind = "FailedToCanonicalize"
    /\ log = <<>>

\* no directory above the start path holds an ao.toml
C29_NoMarkerWitness ==
    /\ op = "run" /\ Done
    /\ CanonAtStart = Ok(Outside)
    /\ Len(result.err) = 2
    /\ result.err[2].kind = "RootNotFound"
    /\ log = <<>>

ApiBuilds == {k \in 1..Len(log) : log[k].site = "docker_api"}

ModelBuilds == {k \in 1..Len(log) : log[k].site = "docker_model"}

\* C30: in build the two image builds are ordered and fail-fast: the image
\* of api-service is built before the image of model-service, and once a
\* build of the api-service image has failed the model-service image is
\* never built and build returns a failure.
C30_ImagesFailFast ==
    op = "build" =>
        /\ \A k \in ModelBuilds : \A m \in ApiBuilds : m < k
        /\ \A m \in ApiBuilds : log[m].status # "ok" =>
              /\ ModelBuilds = {}
              /\ Done => ~result.ok

====
